---- MODULE Spec2Model ----
(***************************************************************************)
(* Model of api/analyze.py: the serverless proxy handler with its          *)
(* file-backed rate limiter (/tmp/rate_limits.json) and response cache     *)
(* (/tmp/response_cache.json).                                             *)
(*                                                                         *)
(* The two JSON files are the shared state.  Every request is a process    *)
(* that walks through do_POST; each access to a file (a _load_json or a    *)
(* _save_json) is one step, so that two requests interleave exactly where  *)
(* the code lets them.  Time is the value of time.time(), in whole         *)
(* seconds.                                                                *)
(***************************************************************************)
EXTENDS Integers, Sequences, FiniteSets, TLC

\* ------------------------------------------------------------- constants
MAX_REQUESTS_PER_HOUR == 10
CACHE_TTL == 3600
\* the literal 3600 of _check_rate_limit (lines 44 and 51)
RATE_WINDOW == 3600

\* ---------------------------------------------------------------- bounds
\* number of request handlers that can be in flight at once
NumProcs == 2
\* number of times the clock advances in one behaviour
MaxTicks == 2
\* number of admission checks after which a client sends no further request
\* (where the requests of two clients run in parallel)
MaxChecks == 2

Procs == 1..NumProcs

\* The clock advances by one second, by one second less than an hour, or by
\* exactly an hour: the sums reach both sides of `< 3600' and of `> 3600'.
Jumps == {1, 3599, 3600}
\* The same without the 3599 seconds.
HourJumps == {1, 3600}

\* ---------------------------------------------------------------- inputs
\* X-Forwarded-For as the list of its comma separated tokens (each token
\* written without the blanks strip() removes); << >> is an absent or empty
\* header.
XffHeaders == { << >>, <<"1.1.1.1">>, <<"1.1.1.1", "9.9.9.9">> }

\* (self.headers.get("X-Forwarded-For") or "unknown").split(",")[0].strip()
ClientKey(xff) == IF xff = << >> THEN "unknown" ELSE Head(xff)

Clients == { ClientKey(x) : x \in XffHeaders }

Prompts == {"hello", "bye"}

\* hashlib.sha256(prompt.encode()).hexdigest(): a fixed digest per prompt,
\* distinct prompts having distinct digests (the first 8 hex digits).
Sha256(prompt) ==
    CASE prompt = "hello" -> "2cf24dba"
      [] prompt = "bye"   -> "b49f425a"
      [] OTHER            -> "e3b0c442"

\* Records are written with their fields in the order in which the names
\* first occur in this module.
\*
\* The request body.  kind: "absent" (Content-Length 0 or missing),
\* "malformed" (not JSON), "nonobject" (JSON, but a list, a number, null),
\* "object".  For an object, ptype says what body["prompt"] is:
\* "missing", "str" (prompt holds it; "" is the empty string), "zero" (a
\* falsy non-string such as 0, null, []), "number" (a truthy non-string).
\* max_tokens is copied into the upstream payload and decides nothing, so
\* the body carries no field for it.
Body(k, t, s) == [prompt |-> s, kind |-> k, ptype |-> t]

BodiesWith(prompts) ==
    { Body("absent", "missing", ""), Body("malformed", "missing", ""),
      Body("nonobject", "missing", ""), Body("object", "missing", ""),
      Body("object", "str", ""), Body("object", "zero", ""),
      Body("object", "number", "") }
    \cup { Body("object", "str", s) : s \in prompts }

Bodies == BodiesWith(Prompts)

NoBody == Body("none", "missing", "")

\* What the upstream call does.  kind "ok": HTTP 2xx with a body whose
\* shape is "text" (content[0].text = text), "notext" (content[0] has no
\* text field), "nocontent" (no content field), "emptylist" (content = []),
\* "notjson" (the body does not parse).  kind "http": HTTPError with a
\* status and a body.  kind "net": URLError (network failure).  kind
\* "never": the upstream accepts the connection and never answers.
Outcome(k, s, c, t) == [kind |-> k, text |-> t, shape |-> s, code |-> c]

UpstreamTexts == {"hi there", ""}

Outcomes ==
    { Outcome("ok", "text", 200, t) : t \in UpstreamTexts }
    \cup { Outcome("ok", s, 200, "") : s \in {"notext", "nocontent", "emptylist", "notjson"} }
    \cup { Outcome("http", "", 401, "invalid key"), Outcome("http", "", 529, "overloaded") }
    \cup { Outcome("net", "", 0, "") }
    \cup { Outcome("never", "", 0, "") }

NoOutcome == Outcome("none", "", 0, "")

\* ------------------------------------------------------------ dictionaries
\* A JSON object / Python dict is a function whose domain is its key set.
EmptyDict == [k \in {} |-> 0]

DictPut(d, k, v) == [x \in (DOMAIN d) \cup {k} |-> IF x = k THEN v ELSE d[x]]

\* ------------------------------------------------------------------- files
RATE_LIMIT_PATH == "/tmp/rate_limits.json"
RESPONSE_CACHE_PATH == "/tmp/response_cache.json"

\* What can be wrong with the storage: a file cannot be opened for reading,
\* or cannot be opened for writing (open raises OSError).
Faults == {"r", "w"} \X {RATE_LIMIT_PATH, RESPONSE_CACHE_PATH}

\* _load_json of a file with the content file: {} when open fails.
LoadJson(file, readable) == IF readable THEN file ELSE EmptyDict

\* SaveJson without the except clause: the OSError leaves _save_json.
SaveJsonUncaught(file, data, writable) ==
    [file |-> IF writable THEN data ELSE file, raised |-> ~ writable]

\* _save_json: the content of the file afterwards, and whether an exception
\* leaves the function (`except OSError: pass': never).
SaveJson(file, data, writable) ==
    [file |-> IF writable THEN data ELSE file, raised |-> FALSE]

\* ------------------------------------------------------------- rate limiter
\* WindowElapsed with >= for >.
WindowElapsedInclusive(t, ws) == t - ws >= RATE_WINDOW
\* now - record["window_start"] > 3600   (lines 44, 51 negated)
WindowElapsed(t, ws) == t - ws > RATE_WINDOW

\* AtCeiling with > for >=.
AtCeilingOffByOne(record) == record.count > MAX_REQUESTS_PER_HOUR
\* record["count"] >= MAX_REQUESTS_PER_HOUR   (line 46)
AtCeiling(record) == record.count >= MAX_REQUESTS_PER_HOUR

\* FreshRecord that counts from 1.
FreshRecordFromOne(t) == [count |-> 1, window_start |-> t]
\* {"count": 0, "window_start": now}   (lines 43, 45)
FreshRecord(t) == [count |-> 0, window_start |-> t]

\* EvictLimits without the filter of line 51.
EvictLimitsKeepAll(lim, t) == lim
\* {k: v for k, v in limits.items() if now - v["window_start"] <= 3600}
EvictLimits(lim, t) ==
    [k \in {x \in DOMAIN lim : ~ WindowElapsed(t, lim[x].window_start)} |-> lim[k]]

\* CheckRateLimit without lines 44-45: an elapsed record is never reset.
CheckRateLimitNoReset(lim, ip, t) ==
    LET record == IF ip \in DOMAIN lim THEN lim[ip] ELSE FreshRecord(t)
    IN  IF AtCeiling(record)
          THEN [allowed |-> FALSE, saved |-> FALSE, limits |-> lim]
          ELSE [allowed |-> TRUE, saved |-> TRUE,
                limits |-> EvictLimits(
                    DictPut(lim, ip, [record EXCEPT !.count = @ + 1]), t)]

\* CheckRateLimit with lines 50-52 ahead of line 46: a denied call evicts
\* and saves too.
CheckRateLimitSaveOnDeny(lim, ip, t) ==
    LET loaded == IF ip \in DOMAIN lim THEN lim[ip] ELSE FreshRecord(t)
        record == IF WindowElapsed(t, loaded.window_start)
                     THEN FreshRecord(t) ELSE loaded
    IN  IF AtCeiling(record)
          THEN [allowed |-> FALSE, saved |-> TRUE, limits |-> EvictLimits(lim, t)]
          ELSE [allowed |-> TRUE, saved |-> TRUE,
                limits |-> EvictLimits(
                    DictPut(lim, ip, [record EXCEPT !.count = @ + 1]), t)]

\* CheckRateLimit with line 48 after line 52: the file is saved before the
\* count is incremented.
CheckRateLimitSaveFirst(lim, ip, t) ==
    LET loaded == IF ip \in DOMAIN lim THEN lim[ip] ELSE FreshRecord(t)
        record == IF WindowElapsed(t, loaded.window_start)
                     THEN FreshRecord(t) ELSE loaded
    IN  IF AtCeiling(record)
          THEN [allowed |-> FALSE, saved |-> FALSE, limits |-> lim]
          ELSE [allowed |-> TRUE, saved |-> TRUE,
                limits |-> EvictLimits(DictPut(lim, ip, record), t)]

\* _check_rate_limit(ip) from the loaded dictionary lim at time t: whether
\* the call is allowed, and the dictionary it saves (saved = FALSE: it
\* returns before _save_json).
CheckRateLimit(lim, ip, t) ==
    LET loaded == IF ip \in DOMAIN lim THEN lim[ip] ELSE FreshRecord(t)
        record == IF WindowElapsed(t, loaded.window_start)
                     THEN FreshRecord(t) ELSE loaded
    IN  IF AtCeiling(record)
          THEN [allowed |-> FALSE, saved |-> FALSE, limits |-> lim]
          ELSE [allowed |-> TRUE, saved |-> TRUE,
                limits |-> EvictLimits(
                    DictPut(lim, ip, [record EXCEPT !.count = @ + 1]), t)]

\* -------------------------------------------------------------------- cache
\* CacheFresh with <= for <.
CacheFreshInclusive(t, ts) == t - ts <= CACHE_TTL
\* time.time() - entry["ts"] < CACHE_TTL   (lines 59, 69)
CacheFresh(t, ts) == t - ts < CACHE_TTL

\* The value None of _get_cached; no text is equal to it.
None == "<None>"

\* entry = cache.get(prompt_hash): the entry, or NoEntry for None.
NoEntry == [text |-> None, ts |-> -1]
CacheGet(c, h) == IF h \in DOMAIN c THEN c[h] ELSE NoEntry

\* GetCached with the comparison of line 59 turned around.
GetCachedInverted(entry, t) ==
    IF entry # NoEntry /\ ~ CacheFresh(t, entry.ts) THEN entry.text ELSE None

\* _get_cached, lines 59-61, on the entry line 58 found, at time t.
GetCached(entry, t) ==
    IF entry # NoEntry /\ CacheFresh(t, entry.ts) THEN entry.text ELSE None

\* `if cached:' (line 96): None and the empty string are falsy.
Truthy(cached) == cached # None /\ cached # ""

\* SetCached without the filter of line 69.
SetCachedKeepAll(c, h, text, t) == DictPut(c, h, [text |-> text, ts |-> t])
\* _set_cached, lines 67-69, on the dictionary line 65 loaded, at time t.
SetCached(c, h, text, t) ==
    LET c1 == DictPut(c, h, [text |-> text, ts |-> t])
    IN  [k \in {x \in DOMAIN c1 : CacheFresh(t, c1[x].ts)} |-> c1[k]]

\* ----------------------------------------------------------------- handler
Response(s, k, v) == [status |-> s, key |-> k, val |-> v]
NoResponse == Response(-1, "", "")
\* An exception that leaves do_POST: no response is written.
Escaped(exc) == Response(0, "exception", exc)

FALLBACK_TEXT == "No response generated."

\* f"Anthropic API error: {e.code} {err_body}"
ApiErrorMessage(code, body) ==
    CASE code = 401 /\ body = "invalid key" -> "Anthropic API error: 401 invalid key"
      [] code = 529 /\ body = "overloaded"  -> "Anthropic API error: 529 overloaded"
      [] OTHER -> "Anthropic API error"

\* Received with the prompt validated before the credential is looked at.
ReceivedPromptFirst(key, body) ==
    IF body.kind = "nonobject" THEN Escaped("AttributeError")
    ELSE IF body.kind \in {"absent", "malformed"} \/ body.ptype \in {"missing", "zero"}
              \/ (body.ptype = "str" /\ body.prompt = "")
      THEN Response(400, "error", "prompt is required")
    ELSE IF ~ key THEN Response(503, "error", "API key not configured")
    ELSE IF body.ptype = "number" THEN Escaped("AttributeError")
    ELSE Response(100, "lookup", "")

\* Received without lines 89-91.
ReceivedNoValidation(key, body) ==
    IF ~ key THEN Response(503, "error", "API key not configured")
    ELSE IF body.kind = "nonobject" THEN Escaped("AttributeError")
    ELSE IF body.ptype = "number" THEN Escaped("AttributeError")
    ELSE Response(100, "lookup", "")

\* Lines 75-91 and the prompt.encode() of line 94: what the handler does
\* with a body before it touches the cache.  Status 100 stands for going on
\* to the lookup of line 95.
Received(key, body) ==
    IF ~ key THEN Response(503, "error", "API key not configured")
    \* body.get on a list, a number or null (line 86)
    ELSE IF body.kind = "nonobject" THEN Escaped("AttributeError")
    \* body = {} (lines 82, 84), no prompt, or a falsy prompt (line 89)
    ELSE IF body.kind \in {"absent", "malformed"} \/ body.ptype \in {"missing", "zero"}
              \/ (body.ptype = "str" /\ body.prompt = "")
      THEN Response(400, "error", "prompt is required")
    \* prompt.encode() on a truthy non-string (line 94)
    ELSE IF body.ptype = "number" THEN Escaped("AttributeError")
    ELSE Response(100, "lookup", "")

\* Dispatched with an HTTP error taken for the answer: its message becomes
\* the text.
DispatchedErrorAsText(o) ==
    CASE o.kind = "http" -> Response(100, "text", ApiErrorMessage(o.code, o.text))
      [] o.kind = "net"  -> Response(500, "error", "URLError")
      [] o.kind = "ok" /\ o.shape = "notjson"   -> Response(500, "error", "JSONDecodeError")
      [] o.kind = "ok" /\ o.shape = "emptylist" -> Response(500, "error", "list index out of range")
      [] o.kind = "ok" /\ o.shape \in {"notext", "nocontent"} -> Response(100, "text", FALLBACK_TEXT)
      [] OTHER -> Response(100, "text", o.text)

\* Lines 119-121 and 124-128 for an upstream outcome: the text to cache
\* (status 100, key "text") or the response of the except clauses, the
\* message of a 500 being str(e), written here as the exception's name or
\* text.
Dispatched(o) ==
    CASE o.kind = "http" -> Response(502, "error", ApiErrorMessage(o.code, o.text))
      [] o.kind = "net"  -> Response(500, "error", "URLError")
      [] o.kind = "ok" /\ o.shape = "notjson"   -> Response(500, "error", "JSONDecodeError")
      \* data.get("content", [{}])[0] on an empty list
      [] o.kind = "ok" /\ o.shape = "emptylist" -> Response(500, "error", "list index out of range")
      [] o.kind = "ok" /\ o.shape \in {"notext", "nocontent"} -> Response(100, "text", FALLBACK_TEXT)
      [] OTHER -> Response(100, "text", o.text)

\* ------------------------------------------------------------------- state
VARIABLES
    apiKey,   \* whether ANTHROPIC_API_KEY is set (os.environ, line 75)
    down,     \* the faults of the storage at this moment
    now,      \* time.time()
    ticks,    \* how often the clock has advanced
    limits,   \* the content of RATE_LIMIT_PATH (absent file: {})
    cache,    \* the content of RESPONSE_CACHE_PATH (absent file: {})
    pc,       \* where each handler is in do_POST
    req,      \* the body of the request a handler is serving
    ip,       \* `ip' of do_POST (line 101)
    lim,      \* `limits' of _check_rate_limit as loaded (line 41)
    entry,    \* `entry' of _get_cached (line 58)
    cch,      \* `cache' of _set_cached as loaded (line 65)
    text,     \* `text' of do_POST (line 121)
    out,      \* what urlopen and resp.read() gave this handler (lines 119-120,
              \* 124), until the handler goes on to _set_cached or is done
    resp,     \* what _respond wrote, once the handler has returned
    calls,    \* history: upstream calls the handler made for this request
    lastPut,  \* history: per fingerprint, the text and the time of the last
              \* _set_cached, while less than ttl seconds old
    win,      \* history: per client, the time of the admission check that
              \* opened its hour, and how many checks and how many allowed
              \* checks the hour has seen; kept while the hour is open
    parallel, \* history: two requests have been in flight at the same time
    admitted  \* history, kept only where `on' is set: per client and time,
              \* the number of checks allowed at that time, for the times of
              \* the last 3600 seconds

vars == <<apiKey, down, now, ticks, limits, cache, pc, req, ip, lim, entry, cch, text,
          out, resp, calls, lastPut, win, parallel, admitted>>

stores == <<limits, cache>>
locals == <<ip, lim, entry, cch, text, out>>
history == <<lastPut, win>>

NoIp == "<none>"

\* A cold start: /tmp holds neither file.
InitWith(logging) ==
    /\ apiKey \in BOOLEAN
    /\ down = {}
    /\ now = 0
    /\ ticks = 0
    /\ limits = EmptyDict
    /\ cache = EmptyDict
    /\ pc = [p \in Procs |-> "idle"]
    /\ req = [p \in Procs |-> NoBody]
    /\ ip = [p \in Procs |-> NoIp]
    /\ lim = [p \in Procs |-> EmptyDict]
    /\ entry = [p \in Procs |-> NoEntry]
    /\ cch = [p \in Procs |-> EmptyDict]
    /\ text = [p \in Procs |-> None]
    /\ out = [p \in Procs |-> NoOutcome]
    /\ resp = [p \in Procs |-> NoResponse]
    /\ calls = [p \in Procs |-> 0]
    /\ lastPut = EmptyDict
    /\ win = EmptyDict
    /\ parallel = FALSE
    /\ admitted = [on |-> logging, at |-> EmptyDict]

Init == InitWith(FALSE)
\* The same, the allowed checks being logged.
InitLogged == InitWith(TRUE)

\* The history of one admission check of client c at time t: the check opens
\* the client's hour when none is open, and is counted in the open one.
Saturate(n) == IF n > MAX_REQUESTS_PER_HOUR THEN MAX_REQUESTS_PER_HOUR + 1 ELSE n
Observe(w, c, t, allowed) ==
    LET g == IF allowed THEN 1 ELSE 0
    IN  IF c \in DOMAIN w
          THEN DictPut(w, c, [calls |-> Saturate(w[c].calls + 1),
                              first |-> w[c].first,
                              granted |-> Saturate(w[c].granted + g)])
          ELSE DictPut(w, c, [calls |-> 1, first |-> t, granted |-> g])

\* The histories at time t: an hour is open while t - first <= 3600, a put
\* is remembered while t - ts < ttl.
OpenHours(w, t) == [c \in {x \in DOMAIN w : t - w[x].first <= RATE_WINDOW} |-> w[c]]
RecentPuts(l, t) == [h \in {x \in DOMAIN l : t - l[x].ts < CACHE_TTL} |-> l[h]]

\* The log of allowed checks: one more for client c at time t; and the log
\* at time t, which keeps the times of the interval [t - 3600, t].
Logged(a, c, t) ==
    LET times == IF c \in DOMAIN a THEN a[c] ELSE EmptyDict
        n == IF t \in DOMAIN times THEN times[t] ELSE 0
    IN  DictPut(a, c, DictPut(times, t, n + 1))
LastHour(a, t) ==
    [c \in DOMAIN a |->
        [u \in {x \in DOMAIN a[c] : t - x <= RATE_WINDOW} |-> a[c][u]]]

\* The number of checks in a log of one client.
RECURSIVE Total(_)
Total(times) ==
    IF DOMAIN times = {} THEN 0
    ELSE LET u == CHOOSE x \in DOMAIN times : TRUE
         IN  times[u] + Total([x \in DOMAIN times \ {u} |-> times[x]])

\* _respond and return.
Respond(p, r) ==
    /\ resp' = [resp EXCEPT ![p] = r]
    /\ pc' = [pc EXCEPT ![p] = "done"]

\* time passes: d seconds
Tick(d) ==
    /\ ticks < MaxTicks
    /\ now' = now + d
    /\ ticks' = ticks + 1
    /\ win' = OpenHours(win, now')
    /\ lastPut' = RecentPuts(lastPut, now')
    /\ admitted' = [admitted EXCEPT !.at = LastHour(@, now')]
    /\ UNCHANGED <<apiKey, down, parallel, stores, pc, req, locals, resp, calls>>

\* The function is deployed again without ANTHROPIC_API_KEY, no request
\* being in flight; the files in /tmp stay.
Unset ==
    /\ apiKey
    /\ \A p \in Procs : pc[p] = "idle"
    /\ apiKey' = FALSE
    /\ UNCHANGED <<down, parallel, admitted, now, ticks, stores, pc, req, locals, resp, calls, history>>

\* The storage breaks, or works again.
Break(f) ==
    /\ f \notin down
    /\ down' = down \cup {f}
    /\ UNCHANGED <<apiKey, parallel, admitted, now, ticks, stores, pc, req, locals, resp, calls, history>>

Mend(f) ==
    /\ f \in down
    /\ down' = down \ {f}
    /\ UNCHANGED <<apiKey, parallel, admitted, now, ticks, stores, pc, req, locals, resp, calls, history>>

Readable(path) == <<"r", path>> \notin down
Writable(path) == <<"w", path>> \notin down

\* do_POST, lines 75-94: a request with body b arrives.
Start(p, b) ==
    /\ pc[p] = "idle"
    /\ req' = [req EXCEPT ![p] = b]
    /\ LET r == Received(apiKey, b)
       IN  IF r.status = 100
             THEN /\ pc' = [pc EXCEPT ![p] = "lookup"]
                  /\ UNCHANGED resp
             ELSE Respond(p, r)
    /\ parallel' = (parallel \/ \E q \in Procs \ {p} : pc[q] # "idle")
    /\ UNCHANGED <<apiKey, down, admitted, now, ticks, stores, locals, calls, history>>

\* _get_cached, lines 57-58: _load_json and cache.get.
GetLoad(p) ==
    /\ pc[p] = "lookup"
    /\ entry' = [entry EXCEPT ![p] =
            CacheGet(LoadJson(cache, Readable(RESPONSE_CACHE_PATH)),
                     Sha256(req[p].prompt))]
    /\ pc' = [pc EXCEPT ![p] = "check"]
    /\ UNCHANGED <<apiKey, down, parallel, admitted, now, ticks, stores, req, ip, lim, cch, text, out, resp, calls, history>>

\* _get_cached, lines 59-61, and do_POST, lines 96-98.
GetCheck(p) ==
    /\ pc[p] = "check"
    /\ LET cached == GetCached(entry[p], now)
       IN  IF Truthy(cached)
             THEN Respond(p, Response(200, "text", cached))
             ELSE /\ pc' = [pc EXCEPT ![p] = "admit"]
                  /\ UNCHANGED resp
    /\ entry' = [entry EXCEPT ![p] = NoEntry]
    /\ UNCHANGED <<apiKey, down, parallel, admitted, now, ticks, stores, req, ip, lim, cch, text, out, calls, history>>

\* do_POST, line 101, with the header xff, and _check_rate_limit, line 41:
\* _load_json.
RateLoad(p, xff) ==
    /\ pc[p] = "admit"
    /\ ip' = [ip EXCEPT ![p] = ClientKey(xff)]
    /\ lim' = [lim EXCEPT ![p] = LoadJson(limits, Readable(RATE_LIMIT_PATH))]
    /\ pc' = [pc EXCEPT ![p] = "decide"]
    /\ UNCHANGED <<apiKey, down, parallel, admitted, now, ticks, stores, req, entry, cch, text, out, resp, calls, history>>

\* _check_rate_limit, lines 42-53, and do_POST, lines 102-104.  The call of
\* line 102 is outside the try of line 118: an exception of it leaves do_POST.
RateDecide(p) ==
    /\ pc[p] = "decide"
    /\ LET r == CheckRateLimit(lim[p], ip[p], now)
           w == IF r.saved
                  THEN SaveJson(limits, r.limits, Writable(RATE_LIMIT_PATH))
                  ELSE [file |-> limits, raised |-> FALSE]
       IN  /\ limits' = w.file
           /\ win' = Observe(win, ip[p], now, r.allowed)
           /\ admitted' = IF admitted.on /\ r.allowed
                             THEN [admitted EXCEPT !.at = Logged(@, ip[p], now)]
                             ELSE admitted
           /\ IF w.raised
                THEN Respond(p, Escaped("OSError"))
                ELSE IF r.allowed
                THEN /\ pc' = [pc EXCEPT ![p] = "call"]
                     /\ UNCHANGED resp
                ELSE Respond(p, Response(429, "error", "Rate limit exceeded. Try again later."))
    /\ UNCHANGED <<apiKey, down, parallel, now, ticks, cache, req, locals, calls, lastPut>>

\* do_POST, lines 106-121 and 124-128: the upstream call and its outcome o.
\* urlopen is called without a timeout (line 119): when the upstream never
\* answers, the handler stays in the call.
Upstream(p, o) ==
    /\ pc[p] = "call"
    /\ calls' = [calls EXCEPT ![p] = @ + 1]
    /\ out' = [out EXCEPT ![p] = o]
    /\ IF o.kind = "never"
         THEN /\ pc' = [pc EXCEPT ![p] = "waiting"]
              /\ UNCHANGED <<text, resp>>
         ELSE LET r == Dispatched(o)
              IN  IF r.status = 100
                    THEN /\ text' = [text EXCEPT ![p] = r.val]
                         /\ pc' = [pc EXCEPT ![p] = "put"]
                         /\ UNCHANGED resp
                    ELSE /\ Respond(p, r)
                         /\ UNCHANGED text
    /\ ip' = [ip EXCEPT ![p] = NoIp]
    /\ lim' = [lim EXCEPT ![p] = EmptyDict]
    /\ UNCHANGED <<apiKey, down, parallel, admitted, now, ticks, stores, req, entry, cch, history>>

\* _set_cached, line 65: _load_json.
PutLoad(p) ==
    /\ pc[p] = "put"
    /\ cch' = [cch EXCEPT ![p] = LoadJson(cache, Readable(RESPONSE_CACHE_PATH))]
    /\ out' = [out EXCEPT ![p] = NoOutcome]
    /\ pc' = [pc EXCEPT ![p] = "save"]
    /\ UNCHANGED <<apiKey, down, parallel, admitted, now, ticks, stores, req, ip, lim, entry, text, resp, calls, history>>

\* _set_cached, lines 66-70, and do_POST, line 123.  The call of line 122 is
\* inside the try: an exception of it is answered by line 128.
PutSave(p) ==
    /\ pc[p] = "save"
    /\ LET h == Sha256(req[p].prompt)
           w == SaveJson(cache, SetCached(cch[p], h, text[p], now),
                         Writable(RESPONSE_CACHE_PATH))
       IN  /\ cache' = w.file
           /\ lastPut' = IF Writable(RESPONSE_CACHE_PATH)
                            THEN DictPut(lastPut, h, [text |-> text[p], ts |-> now])
                            ELSE lastPut
           /\ IF w.raised
                THEN Respond(p, Response(500, "error", "OSError"))
                ELSE Respond(p, Response(200, "text", text[p]))
    /\ cch' = [cch EXCEPT ![p] = EmptyDict]
    /\ text' = [text EXCEPT ![p] = None]
    /\ UNCHANGED <<apiKey, down, parallel, admitted, now, ticks, limits, req, ip, lim, entry, out, calls, win>>

\* The handler has returned; the next request gets a new handler.
Return(p) ==
    /\ pc[p] = "done"
    /\ pc' = [pc EXCEPT ![p] = "idle"]
    /\ req' = [req EXCEPT ![p] = NoBody]
    /\ resp' = [resp EXCEPT ![p] = NoResponse]
    /\ calls' = [calls EXCEPT ![p] = 0]
    /\ ip' = [ip EXCEPT ![p] = NoIp]
    /\ lim' = [lim EXCEPT ![p] = EmptyDict]
    /\ out' = [out EXCEPT ![p] = NoOutcome]
    /\ UNCHANGED <<apiKey, down, parallel, admitted, now, ticks, stores, entry, cch, text, history>>

\* The one handler of an instance that serves one invocation after the other.
Serial == CHOOSE p \in Procs : TRUE

\* ------------------------------------------------------------ specifications
\* Every request, any number of them in flight, the clock running.
Next ==
    \/ \E d \in Jumps : Tick(d)
    \/ Unset
    \/ \E p \in Procs : \E b \in Bodies : Start(p, b)
    \/ \E p \in Procs : GetLoad(p)
    \/ \E p \in Procs : GetCheck(p)
    \/ \E p \in Procs : \E x \in XffHeaders : RateLoad(p, x)
    \/ \E p \in Procs : RateDecide(p)
    \/ \E p \in Procs : \E o \in Outcomes : Upstream(p, o)
    \/ \E p \in Procs : PutLoad(p)
    \/ \E p \in Procs : PutSave(p)
    \/ \E p \in Procs : Return(p)
    \/ \E f \in Faults : Break(f)
    \/ \E f \in Faults : Mend(f)

Spec == Init /\ [][Next]_vars

\* Requests handled one at a time, from every client, all with the same
\* prompt: the rate limiter in full.
NextLimiter ==
    \/ \E d \in HourJumps : Tick(d)
    \/ Unset
    \/ \E b \in BodiesWith({"hello"}) : Start(Serial, b)
    \/ \E p \in Procs : GetLoad(p)
    \/ \E p \in Procs : GetCheck(p)
    \/ \E p \in Procs : \E x \in XffHeaders : RateLoad(p, x)
    \/ \E p \in Procs : RateDecide(p)
    \/ \E p \in Procs : \E o \in Outcomes : Upstream(p, o)
    \/ \E p \in Procs : PutLoad(p)
    \/ \E p \in Procs : PutSave(p)
    \/ \E p \in Procs : Return(p)

SpecLimiter == Init /\ [][NextLimiter]_vars

\* Requests handled one at a time, every prompt, all from the client without
\* an X-Forwarded-For header: the cache in full.
NextCache ==
    \/ \E d \in Jumps : Tick(d)
    \/ Unset
    \/ \E b \in Bodies : Start(Serial, b)
    \/ \E p \in Procs : GetLoad(p)
    \/ \E p \in Procs : GetCheck(p)
    \/ \E p \in Procs : RateLoad(p, << >>)
    \/ \E p \in Procs : RateDecide(p)
    \/ \E p \in Procs : \E o \in Outcomes : Upstream(p, o)
    \/ \E p \in Procs : PutLoad(p)
    \/ \E p \in Procs : PutSave(p)
    \/ \E p \in Procs : Return(p)

SpecCache == Init /\ [][NextCache]_vars

\* Requests handled one at a time, one client, one prompt, within one second,
\* the storage breaking and working again at any moment.
NextFaults ==
    \/ \E f \in Faults : Break(f)
    \/ \E f \in Faults : Mend(f)
    \/ \E b \in BodiesWith({"hello"}) : Start(Serial, b)
    \/ \E p \in Procs : GetLoad(p)
    \/ \E p \in Procs : GetCheck(p)
    \/ \E p \in Procs : RateLoad(p, << >>)
    \/ \E p \in Procs : RateDecide(p)
    \/ \E p \in Procs : \E o \in Outcomes : Upstream(p, o)
    \/ \E p \in Procs : PutLoad(p)
    \/ \E p \in Procs : PutSave(p)
    \/ \E p \in Procs : Return(p)

SpecFaults == Init /\ [][NextFaults]_vars

\* Requests handled one at a time, one client, one prompt, the clock running,
\* every allowed check logged.
NextWindow ==
    \/ \E d \in HourJumps : Tick(d)
    \/ \E b \in BodiesWith({"hello"}) : Start(Serial, b)
    \/ \E p \in Procs : GetLoad(p)
    \/ \E p \in Procs : GetCheck(p)
    \/ \E p \in Procs : RateLoad(p, << >>)
    \/ \E p \in Procs : RateDecide(p)
    \/ \E p \in Procs : \E o \in Outcomes : Upstream(p, o)
    \/ \E p \in Procs : PutLoad(p)
    \/ \E p \in Procs : PutSave(p)
    \/ \E p \in Procs : Return(p)

SpecWindow == InitLogged /\ [][NextWindow]_vars

\* Requests in parallel, all from one client with the same prompt, within
\* one second: the admission checks of one client racing.
NextRace ==
    \/ \E p \in Procs : \E b \in BodiesWith({"hello"}) : Start(p, b)
    \/ \E p \in Procs : GetLoad(p)
    \/ \E p \in Procs : GetCheck(p)
    \/ \E p \in Procs : RateLoad(p, << >>)
    \/ \E p \in Procs : RateDecide(p)
    \/ \E p \in Procs : \E o \in Outcomes : Upstream(p, o)
    \/ \E p \in Procs : PutLoad(p)
    \/ \E p \in Procs : PutSave(p)
    \/ \E p \in Procs : Return(p)

SpecRace == Init /\ [][NextRace]_vars

\* Requests in parallel, all from one client with the same prompt, the clock
\* running, the upstream unreachable: every request that is not denied makes
\* an admission and fails.
NextOutage ==
    \/ \E d \in HourJumps : Tick(d)
    \/ \E p \in Procs : Start(p, Body("object", "str", "hello"))
    \/ \E p \in Procs : GetLoad(p)
    \/ \E p \in Procs : GetCheck(p)
    \/ \E p \in Procs : RateLoad(p, << >>)
    \/ \E p \in Procs : RateDecide(p)
    \/ \E p \in Procs : Upstream(p, Outcome("net", "", 0, ""))
    \/ \E p \in Procs : Return(p)

SpecOutage == Init /\ [][NextOutage]_vars

\* A client that has not yet made MaxChecks admission checks.
Asking(xff) ==
    ClientKey(xff) \in DOMAIN win => win[ClientKey(xff)].calls < MaxChecks

\* Requests in parallel for either prompt from either of two clients, within
\* one second, the upstream answering with a text or not reachable.
NextShared ==
    \/ \E p \in Procs : \E s \in Prompts : Start(p, Body("object", "str", s))
    \/ \E p \in Procs : GetLoad(p)
    \/ \E p \in Procs : GetCheck(p)
    \/ \E p \in Procs : \E x \in {<< >>, <<"1.1.1.1">>} : Asking(x) /\ RateLoad(p, x)
    \/ \E p \in Procs : RateDecide(p)
    \/ \E p \in Procs :
          \E o \in {Outcome("ok", "text", 200, "hi there"), Outcome("net", "", 0, "")} :
              Upstream(p, o)
    \/ \E p \in Procs : PutLoad(p)
    \/ \E p \in Procs : PutSave(p)
    \/ \E p \in Procs : Return(p)

SpecShared == Init /\ [][NextShared]_vars

\* do_POST runs to its end once it was entered: a handler that can take its
\* next step takes it.  Nothing makes the upstream answer.
HandlerStep(p) ==
    \/ GetLoad(p)
    \/ GetCheck(p)
    \/ \E x \in XffHeaders : RateLoad(p, x)
    \/ RateDecide(p)
    \/ \E o \in Outcomes : Upstream(p, o)
    \/ PutLoad(p)
    \/ PutSave(p)

SpecLive == SpecRace /\ \A p \in Procs : WF_vars(HandlerStep(p))

\* -------------------------------------------------------------------- claims
\* The steps the claims speak of.
StartStep(p) == pc[p] = "idle" /\ pc'[p] # "idle"
CheckStep(p) == pc[p] = "check" /\ pc'[p] # "check"
DecideStep(p) == pc[p] = "decide" /\ pc'[p] # "decide"

TooManyRequests == Response(429, "error", "Rate limit exceeded. Try again later.")
PromptRequired == Response(400, "error", "prompt is required")
NotConfigured == Response(503, "error", "API key not configured")

\* C1: however the admission checks of one client interleave, at most 10 of
\* the checks made within one hour of the first are allowed.
C1_AtMostCeilingPerWindow ==
    \A c \in DOMAIN win : win[c].granted <= 10

\* C2: requests handled one at a time: of the admission checks a client makes
\* within 3600 seconds of its first one (the one that found no current record
\* of it), the first 10 are allowed and every later one is denied, whatever
\* the other clients do in between.
C2_FirstTenThenDenied ==
    \A c \in DOMAIN win :
        win[c].granted = (IF win[c].calls <= 10 THEN win[c].calls ELSE 10)

\* An 11th check of a client was denied in the second the store was cold,
\* with another client admitted in between.
C2_Witness ==
    /\ ticks = 0
    /\ \E c \in DOMAIN win :
        /\ win[c].calls = 11 /\ win[c].granted = 10
        /\ \E c2 \in DOMAIN win : c2 # c /\ win[c2].granted >= 1

\* C3: a request whose cache lookup finds an entry less than ttl old with a
\* non-empty text (the lookup the handler takes for a hit) is answered 200
\* with that text in that very step: the rate-limit file and the admission
\* history stay as they are and no upstream call is made.
C3_CacheHitIsFree ==
    [][\A p \in Procs :
        (CheckStep(p) /\ entry[p] # NoEntry /\ now - entry[p].ts < 3600
                      /\ entry[p].text # "")
        => /\ pc'[p] = "done"
           /\ resp'[p] = Response(200, "text", entry[p].text)
           /\ limits' = limits /\ win' = win
           /\ calls'[p] = 0]_vars

\* A request answered from the cache while its client is at the ceiling.
C3_Witness ==
    \E p \in Procs :
        /\ pc[p] = "done" /\ resp[p] = Response(200, "text", "hi there")
        /\ calls[p] = 0
        /\ "unknown" \in DOMAIN limits
        /\ limits["unknown"].count = 10
        /\ now - limits["unknown"].window_start <= 3600

\* C4: once a request for a prompt was answered 200 with the upstream's text
\* X, every request for the same prompt whose lookup comes less than ttl
\* seconds later is answered 200 with X without an upstream call.
C4_RepeatServedFromCache ==
    [][\A p \in Procs :
        (CheckStep(p) /\ Sha256(req[p].prompt) \in DOMAIN lastPut)
        => /\ pc'[p] = "done"
           /\ resp'[p] = Response(200, "text", lastPut[Sha256(req[p].prompt)].text)
           /\ calls'[p] = 0]_vars

\* C5: requests handled one at a time: at any time, _get_cached returns the
\* text of the last put of the fingerprint if that put is less than ttl
\* seconds old, and None otherwise.
C5_HitIffWithinTtl ==
    \A p \in Procs :
        pc[p] = "check" =>
            GetCached(entry[p], now) =
                (IF Sha256(req[p].prompt) \in DOMAIN lastPut
                   THEN lastPut[Sha256(req[p].prompt)].text ELSE None)

\* A lookup 3599 seconds after the put.
C5_Witness ==
    \E p \in Procs :
        /\ pc[p] = "check" /\ entry[p] # NoEntry
        /\ now - entry[p].ts = 3599
        /\ GetCached(entry[p], now) = "hi there"

\* C6: an admission check that finds the client's record more than 3600
\* seconds old is allowed and stores count = 1, window_start = now for the
\* client, and a new hour of the client opens with this check as its first.
C6_ResetAfterWindow ==
    [][\A p \in Procs :
        (DecideStep(p) /\ ip[p] \in DOMAIN limits
                       /\ now - limits[ip[p]].window_start > 3600)
        => /\ pc'[p] = "call"
           /\ ip[p] \in DOMAIN limits'
           /\ limits'[ip[p]] = [count |-> 1, window_start |-> now]
           /\ ip[p] \in DOMAIN win'
           /\ win'[ip[p]] = [calls |-> 1, first |-> now, granted |-> 1]]_vars

\* A client that was at the ceiling has been admitted after its hour.
C6_Witness ==
    \E p \in Procs :
        /\ pc[p] = "call" /\ ip[p] \in DOMAIN lim[p]
        /\ lim[p][ip[p]].count = 10
        /\ now - lim[p][ip[p]].window_start > 3600
        /\ limits[ip[p]] = [count |-> 1, window_start |-> now]

\* C7: an admission check that finds the client's current record at the
\* ceiling writes nothing (both files stay as they are, elapsed records of
\* other clients included) and the handler answers 429 without an upstream
\* call.
C7_DeniedLeavesStateAlone ==
    [][\A p \in Procs :
        (DecideStep(p) /\ ip[p] \in DOMAIN limits
                       /\ now - limits[ip[p]].window_start <= 3600
                       /\ limits[ip[p]].count >= 10)
        => /\ limits' = limits /\ cache' = cache
           /\ pc'[p] = "done" /\ resp'[p] = TooManyRequests
           /\ calls'[p] = 0]_vars

\* A denied request, with another client's elapsed record still in the file.
C7_Witness ==
    \E p \in Procs :
        /\ pc[p] = "done" /\ resp[p] = TooManyRequests /\ calls[p] = 0
        /\ limits = lim[p]
        /\ \E c \in DOMAIN limits : now - limits[c].window_start > 3600

\* C8: while no credential is configured every request is answered 503 at
\* once, whatever its body, and no step changes either file or calls the
\* upstream.
C8_NoCredential ==
    [][~ apiKey =>
        /\ limits' = limits /\ cache' = cache
        /\ \A p \in Procs :
            /\ calls'[p] = 0
            /\ StartStep(p) => (pc'[p] = "done" /\ resp'[p] = NotConfigured)]_vars

\* A request for a prompt that is in the cache, answered 503.
C8_Witness ==
    /\ ~ apiKey
    /\ Sha256("hello") \in DOMAIN cache
    /\ now - cache[Sha256("hello")].ts < 3600
    /\ \E p \in Procs :
        pc[p] = "done" /\ req[p].prompt = "hello" /\ resp[p] = NotConfigured

\* The bodies whose prompt is missing or empty: no body, a body that is not
\* JSON, an object without prompt or with a prompt that is "" or falsy.
MissingOrEmptyPrompt(b) ==
    \/ b.kind \in {"absent", "malformed"}
    \/ b.kind = "object" /\ b.ptype \in {"missing", "zero"}
    \/ b.kind = "object" /\ b.ptype = "str" /\ b.prompt = ""

\* C9: with a credential, a request whose prompt is missing or empty is
\* answered 400 "prompt is required" at once: neither file changes and no
\* upstream call is made.
C9_PromptRequired ==
    [][\A p \in Procs :
        (apiKey /\ StartStep(p) /\ MissingOrEmptyPrompt(req'[p]))
        => /\ pc'[p] = "done" /\ resp'[p] = PromptRequired
           /\ limits' = limits /\ cache' = cache
           /\ calls'[p] = 0]_vars

\* {"prompt": ""} answered 400 while a client is at the ceiling and the
\* cache holds an entry.
C9_Witness ==
    /\ \E p \in Procs :
        pc[p] = "done" /\ req[p] = Body("object", "str", "") /\ resp[p] = PromptRequired
    /\ \E c \in DOMAIN limits :
        limits[c].count = 10 /\ now - limits[c].window_start <= 3600
    /\ DOMAIN cache # {}

\* C10: every request ends with one JSON response whose status is one of
\* 200, 400, 429, 500, 502, 503, after at most one upstream call.
C10_AlwaysOneJsonResponse ==
    \A p \in Procs :
        pc[p] = "done" =>
            resp[p].status \in {200, 400, 429, 500, 502, 503} /\ calls[p] <= 1

\* C11: a request that has reached the upstream call is answered in the end
\* (with 500 when the upstream never answers): no handler stays in the call
\* for ever.
C11_DispatchedEventuallyResponded ==
    \A p \in Procs : (pc[p] = "call") ~> (pc[p] = "done")

\* The step in which the upstream call returns or raises.
CallStep(p) == pc[p] = "call" /\ pc'[p] \notin {"call", "waiting"}
SaveStep(p) == pc[p] = "save" /\ pc'[p] # "save"

\* C12: an upstream HTTP error is answered 502 with "Anthropic API error:
\* <code> <body>", a network failure or an unparsable upstream body is
\* answered 500, and in both cases the cache file stays as it is; a handler
\* goes on to _set_cached only after a successful upstream call, and the cache
\* file changes only in the save of such a handler.
C12_CacheOnlyOnSuccess ==
    [][/\ \A p \in Procs :
            /\ (CallStep(p) /\ out'[p].kind = "http")
               => /\ pc'[p] = "done" /\ cache' = cache
                  /\ resp'[p] = Response(502, "error",
                                     ApiErrorMessage(out'[p].code, out'[p].text))
            /\ (CallStep(p) /\ (out'[p].kind = "net" \/ out'[p].shape = "notjson"))
               => /\ pc'[p] = "done" /\ cache' = cache
                  /\ resp'[p].status = 500 /\ resp'[p].key = "error"
            /\ (CallStep(p) /\ pc'[p] = "put") => out'[p].kind = "ok"
       /\ cache' # cache => \E p \in Procs : SaveStep(p) /\ resp'[p].status = 200]_vars

\* Upstream answered 401 "invalid key": 502 with the message, the prompt not
\* in the cache, another prompt's entry still there.
C12_Witness ==
    \E p \in Procs :
        /\ pc[p] = "done" /\ out[p] = Outcome("http", "", 401, "invalid key")
        /\ resp[p] = Response(502, "error", "Anthropic API error: 401 invalid key")
        /\ Sha256(req[p].prompt) \notin DOMAIN cache
        /\ DOMAIN cache # {}

LookupStep(p) == pc[p] = "lookup" /\ pc'[p] # "lookup"
AdmitStep(p) == pc[p] = "admit" /\ pc'[p] # "admit"

\* C13: a file that cannot be opened never fails the request.  An unreadable
\* rate file is read as {} and the check on {} is allowed; an unwritable one
\* is left as it is and the check answers as it would have (allowed, or 429
\* for a record it could read at the ceiling); an unreadable cache file gives
\* a miss; an unwritable one is left as it is by the put and the text is
\* answered 200 all the same; no step on a store ends a request with anything
\* but 200 or 429.
C13_StoreFailuresDegrade ==
    [][\A p \in Procs :
        /\ (LookupStep(p) /\ ~ Readable(RESPONSE_CACHE_PATH)) => entry'[p] = NoEntry
        /\ (CheckStep(p) /\ entry[p] = NoEntry) => pc'[p] = "admit"
        /\ (AdmitStep(p) /\ ~ Readable(RATE_LIMIT_PATH)) => lim'[p] = EmptyDict
        /\ (DecideStep(p) /\ lim[p] = EmptyDict) => pc'[p] = "call"
        /\ (DecideStep(p) /\ ~ Writable(RATE_LIMIT_PATH))
           => /\ limits' = limits
              /\ \/ pc'[p] = "call"
                 \/ /\ resp'[p] = TooManyRequests
                    /\ ip[p] \in DOMAIN lim[p]
                    /\ lim[p][ip[p]].count >= 10
        /\ (SaveStep(p) /\ ~ Writable(RESPONSE_CACHE_PATH))
           => /\ cache' = cache
              /\ resp'[p] = Response(200, "text", text[p])
        /\ (pc[p] \in {"lookup", "check", "admit", "decide", "put", "save"}
              /\ pc'[p] = "done")
           => resp'[p].status \in {200, 429}]_vars

\* With both files neither readable nor writable, a request was admitted,
\* called the upstream and was answered 200 with its text; both files are as
\* empty as before.
C13_Witness ==
    /\ down = Faults
    /\ limits = EmptyDict /\ cache = EmptyDict
    /\ \E p \in Procs :
        /\ pc[p] = "done" /\ calls[p] = 1
        /\ resp[p] = Response(200, "text", "hi there")

\* C14: in every state, however the requests interleave, every record in the
\* rate-limit file has 1 <= count <= 10; and as long as no two requests have
\* been in flight together, the count of every current record is the number
\* of checks allowed for that client since the record's window_start (so it
\* grows by 1 with every allowed check).
C14_CountWithinCeiling ==
    /\ \A c \in DOMAIN limits :
          1 <= limits[c].count /\ limits[c].count <= 10
    /\ ~ parallel =>
          \A c \in DOMAIN limits :
              now - limits[c].window_start <= 3600 =>
                  /\ c \in DOMAIN win
                  /\ win[c].first = limits[c].window_start
                  /\ win[c].granted = limits[c].count

\* After a race the file says 10 although 11 checks were allowed in the hour.
C14_Witness ==
    /\ parallel
    /\ \E c \in DOMAIN limits :
        /\ limits[c].count = 10 /\ c \in DOMAIN win /\ win[c].granted = 11
        /\ ticks > 0 /\ limits[c].window_start = now

\* C15, as claimed: 20 allowed checks of one client fit into an interval of
\* 3600 seconds, 10 at the end of one window and 10 at the start of the next.
\* The 10 of a window begin with the check that set window_start, so the next
\* window has to open when 3600 seconds have passed since window_start: a
\* check that finds its client's record 3600 seconds old or older is allowed.
C15_TwentyWithinWindowDuration ==
    [][\A p \in Procs :
        (DecideStep(p) /\ ip[p] \in DOMAIN limits
                       /\ now - limits[ip[p]].window_start >= 3600)
        => pc'[p] = "call"]_vars

\* C15, amended: requests handled one at a time: in every interval of at
\* most 3600 seconds at most 19 checks of one client are allowed (the first
\* allowed check of a window is 3600 seconds old before the next window can
\* open, and is more than that when it opens).
C15_AtMostNineteenPerInterval ==
    \A c \in DOMAIN admitted.at : Total(admitted.at[c]) <= 19

\* 19 allowed checks within 3600 seconds: 9 of a window that began before,
\* and the 10 of the next window.
C15_Witness ==
    \E c \in DOMAIN admitted.at :
        /\ Total(admitted.at[c]) = 19
        /\ c \in DOMAIN limits
        /\ limits[c] = [count |-> 10, window_start |-> now]
        /\ now - 3600 \in DOMAIN admitted.at[c]
        /\ admitted.at[c][now - 3600] = 9

\* C16: requests handled one at a time: after an allowed check at time now the
\* rate-limit file holds no record with now - window_start > 3600, and every
\* record of another client that was not older than that is in the file as
\* it was.
C16_AdmitPrunesElapsedOnly ==
    [][\A p \in Procs :
        (DecideStep(p) /\ pc'[p] = "call")
        => /\ \A c \in DOMAIN limits' : now - limits'[c].window_start <= 3600
           /\ \A c \in DOMAIN limits \ {ip[p]} :
                 now - limits[c].window_start <= 3600
                 => (c \in DOMAIN limits' /\ limits'[c] = limits[c])]_vars

\* An allowed check has removed the elapsed record of another client.
C16_Witness ==
    \E p \in Procs :
        /\ pc[p] = "call"
        /\ \E c \in DOMAIN lim[p] \ {ip[p]} :
            /\ now - lim[p][c].window_start > 3600
            /\ c \notin DOMAIN limits
        /\ ip[p] \in DOMAIN limits

\* C17: requests handled one at a time: after a put at time now the cache file
\* holds the new entry with ts = now, holds no entry with now - ts >= ttl, and
\* holds every other entry that was younger than ttl, with its text and ts.
C17_PutPrunesExpiredOnly ==
    [][\A p \in Procs :
        SaveStep(p)
        => LET h == Sha256(req[p].prompt)
           IN  /\ h \in DOMAIN cache'
               /\ cache'[h] = [text |-> text[p], ts |-> now]
               /\ \A k \in DOMAIN cache' : now - cache'[k].ts < 3600
               /\ \A k \in DOMAIN cache \ {h} :
                     now - cache[k].ts < 3600
                     => (k \in DOMAIN cache' /\ cache'[k] = cache[k])]_vars

\* A put has just stored its entry, and the entry of the other prompt, 3599
\* seconds old, is still there.
C17_Witness ==
    \E p \in Procs :
        /\ pc[p] = "done" /\ calls[p] = 1 /\ resp[p].status = 200
        /\ Sha256(req[p].prompt) \in DOMAIN cache
        /\ cache[Sha256(req[p].prompt)].ts = now
        /\ \E k \in DOMAIN cache :
            k # Sha256(req[p].prompt) /\ now - cache[k].ts = 3599

\* The text the claim expects for an upstream answer that parsed: the text of
\* the first content item, the fallback literal when there is none or it is
\* empty.
ExpectedText(o) ==
    IF o.shape = "text" /\ o.text # "" THEN o.text ELSE FALLBACK_TEXT

\* C18: when the upstream call succeeds (an answer that parses), the handler
\* goes on with the first text segment, or with "No response generated." when
\* there is no content field, an empty content list, a first item without
\* text, or an empty text; that text is what the put stores under the
\* request's fingerprint and what is answered with 200.
C18_TextOrFallback ==
    [][\A p \in Procs :
        /\ (CallStep(p) /\ out'[p].kind = "ok" /\ out'[p].shape # "notjson")
           => (pc'[p] = "put" /\ text'[p] = ExpectedText(out'[p]))
        /\ SaveStep(p)
           => /\ Sha256(req[p].prompt) \in DOMAIN cache'
              /\ cache'[Sha256(req[p].prompt)].text = text[p]
              /\ resp'[p] = Response(200, "text", text[p])]_vars

\* C19: however requests for different prompts and from different clients
\* interleave: the entry a put has stored is in the cache file, with its text
\* and time, for as long as it is younger than ttl; and a check of one client
\* leaves every current record of the other clients in the rate-limit file as
\* it is.
C19_EntriesSurviveOtherKeys ==
    /\ [](\A h \in DOMAIN lastPut :
              h \in DOMAIN cache /\ cache[h] = lastPut[h])
    /\ [][\A p \in Procs :
            DecideStep(p)
            => \A c \in DOMAIN limits \ {ip[p]} :
                  now - limits[c].window_start <= 3600
                  => (c \in DOMAIN limits' /\ limits'[c] = limits[c])]_vars

\* C20: requests handled one at a time: when the upstream call of an admitted
\* request fails (502 or 500), the rate-limit file stays as the admission
\* left it, the client's count one above what the check had found (1 for a
\* new or elapsed record); and a check of a client whose hour has seen 10
\* allowed checks is answered 429, whatever became of those requests.
C20_AdmissionNotRefunded ==
    [][\A p \in Procs :
        /\ (CallStep(p) /\ pc'[p] = "done")
           => /\ resp'[p].status \in {500, 502}
              /\ limits' = limits
              /\ ip[p] \in DOMAIN limits
              /\ limits[ip[p]].count =
                    (IF ip[p] \in DOMAIN lim[p]
                        /\ lim[p][ip[p]].window_start = limits[ip[p]].window_start
                       THEN lim[p][ip[p]].count + 1 ELSE 1)
        /\ (DecideStep(p) /\ ip[p] \in DOMAIN win /\ win[ip[p]].granted >= 10)
           => resp'[p] = TooManyRequests]_vars

\* In the second of the cold start, with nothing ever cached: 10 requests of
\* a client were admitted and failed, and its next one is answered 429.
C20_Witness ==
    \E p \in Procs :
        /\ pc[p] = "done" /\ resp[p] = TooManyRequests
        /\ ticks = 0 /\ cache = EmptyDict
        /\ ip[p] \in DOMAIN limits /\ limits[ip[p]].count = 10
        /\ win[ip[p]].granted = 10 /\ win[ip[p]].calls = 11

====
